---- MODULE Spec2Model ----
(***************************************************************************)
(* The hazard-resource inventory of physrisk (physrisk/data/inventory.py): *)
(* EmbeddedInventory.to_resources (expansion of the embedded templates and *)
(* the map_id hashes of their periods), the key derivation alphanumeric /  *)
(* base36encode, and the two look-up maps of Inventory.                    *)
(*                                                                         *)
(* A Python str is a sequence of one-character strings, bytes are numbers  *)
(* 0..255, a Python int is a sign and a magnitude in base 2^16 (most       *)
(* significant limb first, no leading zero limb), a 32-bit word of SHA-1   *)
(* is a pair <<high half, low half>> of 16-bit numbers.                    *)
(***************************************************************************)
EXTENDS Integers, Sequences, FiniteSets, TLC

VARIABLES
    models,                 \* self.models of the EmbeddedInventory
    pc,                     \* "idle", "resolving" (in to_resources), "indexing" (in Inventory.__init__), "built"
    expanded_models,        \* to_resources: the expanded resources, resolved in place
    mi, si,                 \* to_resources: the model and the scenario the loops are at (from 1)
    hashed,                 \* to_resources: the array names hashed so far by this call
    runs,                   \* the outcome of every call of to_resources that ended
    hazard_resources,       \* Inventory.__init__: its argument
    ri,                     \* Inventory.__init__: the resource the loop is at (from 1)
    resources,              \* Inventory.resources
    resources_by_type_id,   \* Inventory.resources_by_type_id
    found,                  \* the last look-up and what it gave
    given,                  \* base36encode: its argument
    encoded                 \* base36encode: what the call gave, once it was made

vars == <<models, pc, expanded_models, mi, si, hashed, runs, hazard_resources, ri, resources,
          resources_by_type_id, found, given, encoded>>


(* ---------------------------------------------------------------- str -- *)

\* code points of the characters the catalog uses (all ASCII, so one byte each)
Ord ==
    ("a" :> 97) @@ ("b" :> 98) @@ ("c" :> 99) @@ ("d" :> 100) @@ ("e" :> 101) @@ ("f" :> 102) @@
    ("g" :> 103) @@ ("h" :> 104) @@ ("i" :> 105) @@ ("j" :> 106) @@ ("k" :> 107) @@ ("l" :> 108) @@
    ("m" :> 109) @@ ("n" :> 110) @@ ("o" :> 111) @@ ("p" :> 112) @@ ("q" :> 113) @@ ("r" :> 114) @@
    ("s" :> 115) @@ ("t" :> 116) @@ ("u" :> 117) @@ ("v" :> 118) @@ ("w" :> 119) @@ ("x" :> 120) @@
    ("y" :> 121) @@ ("z" :> 122) @@ ("A" :> 65) @@ ("B" :> 66) @@ ("C" :> 67) @@ ("D" :> 68) @@
    ("E" :> 69) @@ ("F" :> 70) @@ ("G" :> 71) @@ ("H" :> 72) @@ ("I" :> 73) @@ ("J" :> 74) @@
    ("K" :> 75) @@ ("L" :> 76) @@ ("M" :> 77) @@ ("N" :> 78) @@ ("O" :> 79) @@ ("P" :> 80) @@
    ("Q" :> 81) @@ ("R" :> 82) @@ ("S" :> 83) @@ ("T" :> 84) @@ ("U" :> 85) @@ ("V" :> 86) @@
    ("W" :> 87) @@ ("X" :> 88) @@ ("Y" :> 89) @@ ("Z" :> 90) @@ ("0" :> 48) @@ ("1" :> 49) @@
    ("2" :> 50) @@ ("3" :> 51) @@ ("4" :> 52) @@ ("5" :> 53) @@ ("6" :> 54) @@ ("7" :> 55) @@
    ("8" :> 56) @@ ("9" :> 57) @@ ("_" :> 95) @@ ("-" :> 45) @@ ("/" :> 47) @@ ("{" :> 123) @@
    ("}" :> 125) @@ (":" :> 58) @@ ("." :> 46) @@ (" " :> 32)

\* text.encode("utf-8")
Utf8Encode(text) == [i \in 1..Len(text) |-> Ord[text[i]]]

Min(a, b) == IF a < b THEN a ELSE b

\* (mutant) the slice left out
Slice0_all(s, n) == s

\* s[0:n]
Slice0(s, n) == SubSeq(s, 1, Min(n, Len(s)))

\* s.startswith(p, at i) with i counted from 1
StartsWithAt(s, p, i) ==
    /\ i + Len(p) - 1 <= Len(s)
    /\ \A k \in 1..Len(p) : s[i + k - 1] = p[k]

\* one step of the scan of s.replace(old, new): st.i is the position looked at
\* (from 1), st.out what is built so far
ReplaceStep(s, old, new, st) ==
    IF StartsWithAt(s, old, st.i)
    THEN [i |-> st.i + Len(old), out |-> st.out \o new]
    ELSE [i |-> st.i + 1, out |-> Append(st.out, s[st.i])]

RECURSIVE ReplaceScan(_, _, _, _, _)
\* the scan continued until the position is beyond `upto` (by halves, which keeps
\* the nesting of the evaluation logarithmic in the length)
ReplaceScan(s, old, new, st, upto) ==
    IF st.i > upto THEN st
    ELSE IF st.i = upto THEN ReplaceStep(s, old, new, st)
    ELSE ReplaceScan(s, old, new, ReplaceScan(s, old, new, st, (st.i + upto) \div 2), upto)

\* s.replace(old, new), old not empty: the leftmost occurrences, not overlapping
Replace(s, old, new) == ReplaceScan(s, old, new, [i |-> 1, out |-> <<>>], Len(s)).out

\* old in s
Contains(s, old) == \E i \in 1..Len(s) : StartsWithAt(s, old, i)

Digits == <<"0", "1", "2", "3", "4", "5", "6", "7", "8", "9">>

RECURSIVE StrNat(_)
\* str(n) of an int n >= 0
StrNat(n) == IF n < 10 THEN <<Digits[n + 1]>> ELSE StrNat(n \div 10) \o <<Digits[(n % 10) + 1]>>

RECURSIVE ZeroPad(_, _)
ZeroPad(s, width) == IF Len(s) >= width THEN s ELSE ZeroPad(<<"0">> \o s, width)

(* -------------------------------------------------------------- SHA-1 -- *)

Half == 2 ^ 16

Add32(x, y) ==
    LET lo == x[2] + y[2]
        hi == x[1] + y[1] + (lo \div Half)
    IN  <<hi % Half, lo % Half>>

\* rotate left by n, 0 < n < 16
RotlSmall(x, n) ==
    LET p == 2 ^ n
        q == 2 ^ (16 - n)
    IN  <<((x[1] * p) % Half) + (x[2] \div q), ((x[2] * p) % Half) + (x[1] \div q)>>

\* rotate left by n, 0 < n < 32, n # 16
Rotl(x, n) == IF n < 16 THEN RotlSmall(x, n) ELSE RotlSmall(<<x[2], x[1]>>, n - 16)

\* a & b of two 4-bit numbers
AndNib(a, b) ==
    8 * ((a \div 8) * (b \div 8)) + 4 * (((a \div 4) % 2) * ((b \div 4) % 2))
      + 2 * (((a \div 2) % 2) * ((b \div 2) % 2)) + (a % 2) * (b % 2)

\* a & b, a ^ b, ~a of 16-bit numbers
And16(a, b) ==
    4096 * AndNib(a \div 4096, b \div 4096) + 256 * AndNib((a \div 256) % 16, (b \div 256) % 16)
      + 16 * AndNib((a \div 16) % 16, (b \div 16) % 16) + AndNib(a % 16, b % 16)
Xor16(a, b) == a + b - 2 * And16(a, b)
Not16(a) == (Half - 1) - a

\* the round function f of SHA-1 on 16-bit halves: (b & c) | (~b & d), b ^ c ^ d,
\* (b & c) | (b & d) | (c & d); the terms or-ed have no bit in common, so | is +
F16(kind, b, c, d) ==
    CASE kind = "ch"     -> And16(b, c) + And16(Not16(b), d)
      [] kind = "parity" -> Xor16(Xor16(b, c), d)
      [] kind = "maj"    -> And16(b, c) + And16(Xor16(b, c), d)

F32(kind, b, c, d) == <<F16(kind, b[1], c[1], d[1]), F16(kind, b[2], c[2], d[2])>>

Xor4W(a, b, c, d) ==
    <<Xor16(Xor16(a[1], b[1]), Xor16(c[1], d[1])), Xor16(Xor16(a[2], b[2]), Xor16(c[2], d[2]))>>

\* the message, a 1 bit, zeros up to 56 mod 64, the bit length on 8 bytes
Sha1Pad(bytes) ==
    LET n     == Len(bytes)
        zeros == (64 - ((n + 9) % 64)) % 64
        bits  == n * 8
    IN  bytes \o <<128>> \o [i \in 1..zeros |-> 0] \o
        <<0, 0, 0, 0, (bits \div 16777216) % 256, (bits \div 65536) % 256,
          (bits \div 256) % 256, bits % 256>>

\* the 16 big-endian words of block k (from 0) of the padded message
BlockWords(padded, k) ==
    [i \in 1..16 |->
        LET o == 64 * k + 4 * (i - 1)
        IN  <<padded[o + 1] * 256 + padded[o + 2], padded[o + 3] * 256 + padded[o + 4]>>]

RECURSIVE ScheduleTo(_, _)
\* the message schedule extended to n words (by halves)
ScheduleTo(w, n) ==
    IF Len(w) >= n THEN w
    ELSE IF Len(w) + 1 = n
         THEN Append(w, Rotl(Xor4W(w[n - 3], w[n - 8], w[n - 14], w[n - 16]), 1))
    ELSE ScheduleTo(ScheduleTo(w, (Len(w) + n) \div 2), n)

\* the 80 words of the message schedule
Schedule(w) == ScheduleTo(w, 80)

RoundKind(t) == IF t <= 20 THEN "ch" ELSE IF t <= 40 THEN "parity"
                ELSE IF t <= 60 THEN "maj" ELSE "parity"

\* 5A827999, 6ED9EBA1, 8F1BBCDC, CA62C1D6
RoundK(t) == IF t <= 20 THEN <<23170, 31129>> ELSE IF t <= 40 THEN <<28377, 60321>>
             ELSE IF t <= 60 THEN <<36635, 48348>> ELSE <<51810, 49622>>

\* round st.t on the working state st.v == <<a, b, c, d, e>>
Round(st, w) ==
    LET s    == st.v
        f    == F32(RoundKind(st.t), s[2], s[3], s[4])
        temp == Add32(Add32(Add32(Add32(Rotl(s[1], 5), f), s[5]), RoundK(st.t)), w[st.t])
    IN  [t |-> st.t + 1, v |-> <<temp, s[1], Rotl(s[2], 30), s[3], s[4]>>]

RECURSIVE RoundsTo(_, _, _)
\* rounds st.t..last (by halves)
RoundsTo(st, w, last) ==
    IF st.t > last THEN st
    ELSE IF st.t = last THEN Round(st, w)
    ELSE RoundsTo(RoundsTo(st, w, (st.t + last) \div 2), w, last)

\* the 80 rounds
Rounds(s, w) == RoundsTo([t |-> 1, v |-> s], w, 80).v

RECURSIVE Sha1Blocks(_, _, _)
Sha1Blocks(h, padded, k) ==
    IF 64 * k >= Len(padded) THEN h
    ELSE LET s == Rounds(h, Schedule(BlockWords(padded, k)))
         IN  Sha1Blocks([i \in 1..5 |-> Add32(h[i], s[i])], padded, k + 1)

\* 67452301, EFCDAB89, 98BADCFE, 10325476, C3D2E1F0
Sha1Init == <<<<26437, 8961>>, <<61389, 43913>>, <<39098, 56574>>, <<4146, 21622>>, <<50130, 57840>>>>

\* hashlib.sha1(bytes).digest(): 20 bytes
Sha1Digest(bytes) ==
    LET h == Sha1Blocks(Sha1Init, Sha1Pad(bytes), 0)
    IN  [i \in 1..20 |->
            LET half == h[((i - 1) \div 4) + 1][(((i - 1) % 4) \div 2) + 1]
            IN  IF i % 2 = 1 THEN half \div 256 ELSE half % 256]

(* ------------------------------------------------------------- Python int -- *)

RECURSIVE StripZeros(_)
StripZeros(limbs) ==
    IF limbs = <<>> THEN <<>>
    ELSE IF limbs[1] = 0 THEN StripZeros(Tail(limbs)) ELSE limbs

PyInt(neg, mag) == [type |-> "int", neg |-> neg, mag |-> mag]

\* a small natural number as a Python int
PyNat(n) == PyInt(FALSE, StripZeros(<<n \div Half, n % Half>>))

\* int.from_bytes(bytes, "big"), for an even number of bytes
IntFromBytes(bytes) ==
    PyInt(FALSE, StripZeros([i \in 1..(Len(bytes) \div 2) |-> bytes[2 * i - 1] * 256 + bytes[2 * i]]))

RECURSIVE DivModLimbs(_, _, _, _)
\* long division of the limbs from position i on by d, with carry r: <<quotient limbs, remainder>>
DivModLimbs(limbs, d, i, r) ==
    IF i > Len(limbs) THEN <<<<>>, r>>
    ELSE LET cur  == r * Half + limbs[i]
             rest == DivModLimbs(limbs, d, i + 1, cur % d)
         IN  <<<<cur \div d>> \o rest[1], rest[2]>>

\* divmod(number, d) of a magnitude
DivMod(mag, d) ==
    LET qr == DivModLimbs(mag, d, 1, 0)
    IN  <<StripZeros(qr[1]), qr[2]>>


(* ---------------------------------------------------------- key deriver -- *)

alphabet == <<"0", "1", "2", "3", "4", "5", "6", "7", "8", "9", "a", "b", "c", "d", "e", "f",
              "g", "h", "i", "j", "k", "l", "m", "n", "o", "p", "q", "r", "s", "t", "u", "v",
              "w", "x", "y", "z">>

Returned(val) == [exc |-> "none", val |-> val]
Raised(exc)   == [exc |-> exc, val |-> <<>>]

\* (mutant) base36 = base36 + alphabet[i]
base36step_appends(st) ==
    LET qr == DivMod(st.number, Len(alphabet))
    IN  [number |-> qr[1], base36 |-> st.base36 \o <<alphabet[qr[2] + 1]>>]

\* number, i = divmod(number, len(alphabet)); base36 = alphabet[i] + base36
base36step(st) ==
    LET qr == DivMod(st.number, Len(alphabet))
    IN  [number |-> qr[1], base36 |-> <<alphabet[qr[2] + 1]>> \o st.base36]

RECURSIVE base36loop(_, _)
\* while number != 0: base36step, until base36 has n characters (by halves)
base36loop(st, n) ==
    IF st.number = <<>> \/ Len(st.base36) >= n THEN st
    ELSE IF Len(st.base36) + 1 = n THEN base36step(st)
    ELSE base36loop(base36loop(st, (Len(st.base36) + n) \div 2), n)

\* an upper bound of the number of base-36 digits: fewer than 4 for each 16-bit limb
MaxDigits(mag) == 4 * Len(mag)

\* base36encode(number): the string returned, or the exception raised
base36encode(number) ==
    IF number.type # "int" THEN Raised("TypeError")
    ELSE IF number.neg THEN Raised("TypeError")
    ELSE IF number.mag = <<>> THEN Returned(<<alphabet[1]>>)
    ELSE IF Len(number.mag) = 1 /\ number.mag[1] < Len(alphabet)
         THEN Returned(<<alphabet[number.mag[1] + 1]>>)
    ELSE Returned(base36loop([number |-> number.mag, base36 |-> <<>>], MaxDigits(number.mag)).base36)

\* alphanumeric(text)
alphanumeric(text) == base36encode(IntFromBytes(Sha1Digest(Utf8Encode(text))))

(* ------------------------------------------------------------ str.format -- *)

StrVal(s) == [type |-> "str", s |-> s, n |-> 0]
IntVal(n) == [type |-> "int", s |-> <<>>, n |-> n]

IsDigit(c) == \E i \in 1..10 : Digits[i] = c
DigitOf(c) == (CHOOSE i \in 1..10 : Digits[i] = c) - 1

RECURSIVE ParseNat(_)
\* int(s) of a string of digits
ParseNat(s) == IF s = <<>> THEN 0 ELSE 10 * ParseNat(SubSeq(s, 1, Len(s) - 1)) + DigitOf(s[Len(s)])

RECURSIVE PadLeft(_, _, _)
PadLeft(s, fill, width) == IF Len(s) >= width THEN s ELSE PadLeft(<<fill>> \o s, fill, width)

\* format(value, spec) for the format specs [0][width]["d"] and the empty one
FormatValue(value, spec) ==
    IF spec = <<>>
    THEN Returned(IF value.type = "str" THEN value.s ELSE StrNat(value.n))
    ELSE LET typed == spec[Len(spec)] = "d"
             w     == IF typed THEN SubSeq(spec, 1, Len(spec) - 1) ELSE spec
         IN  IF \E i \in 1..Len(w) : ~IsDigit(w[i]) THEN Raised("ValueError")
             ELSE IF value.type = "str"
                  THEN IF typed THEN Raised("ValueError")
                       ELSE Returned(value.s \o [i \in 1..(ParseNat(w) - Len(value.s)) |->
                                                     IF w[1] = "0" THEN "0" ELSE " "])
             ELSE Returned(PadLeft(StrNat(value.n), IF w # <<>> /\ w[1] = "0" THEN "0" ELSE " ",
                                   ParseNat(w)))

\* the first position >= i of character c in s, or 0
Find(s, c, i) ==
    IF \E j \in i..Len(s) : s[j] = c
    THEN CHOOSE j \in i..Len(s) : s[j] = c /\ \A k \in i..(j - 1) : s[k] # c
    ELSE 0

\* the replacement field s[i] = "{" ... "}" = s[close], formatted with the keyword arguments
FormatField(s, kwargs, i, close) ==
    LET field == SubSeq(s, i + 1, close - 1)
        colon == Find(field, ":", 1)
        name  == IF colon = 0 THEN field ELSE SubSeq(field, 1, colon - 1)
        spec  == IF colon = 0 THEN <<>> ELSE SubSeq(field, colon + 1, Len(field))
    IN  IF name = <<>> THEN Raised("IndexError")
        ELSE IF name \notin DOMAIN kwargs THEN Raised("KeyError")
        ELSE FormatValue(kwargs[name], spec)

\* one step of the scan of a format string: st.i the position looked at, st.out the
\* text built, st.exc the exception raised
FormatStep(s, kwargs, st) ==
    LET c == s[st.i]
    IN  IF c = "{"
        THEN IF st.i < Len(s) /\ s[st.i + 1] = "{"
             THEN [st EXCEPT !.i = st.i + 2, !.out = Append(st.out, "{")]
             ELSE LET close == Find(s, "}", st.i + 1)
                  IN  IF close = 0 THEN [st EXCEPT !.exc = "ValueError"]
                      ELSE LET r == FormatField(s, kwargs, st.i, close)
                           IN  IF r.exc # "none" THEN [st EXCEPT !.exc = r.exc]
                               ELSE [st EXCEPT !.i = close + 1, !.out = st.out \o r.val]
        ELSE IF c = "}"
        THEN IF st.i < Len(s) /\ s[st.i + 1] = "}"
             THEN [st EXCEPT !.i = st.i + 2, !.out = Append(st.out, "}")]
             ELSE [st EXCEPT !.exc = "ValueError"]
        ELSE [st EXCEPT !.i = st.i + 1, !.out = Append(st.out, c)]

RECURSIVE FormatScan(_, _, _, _)
\* the scan continued until the position is beyond `upto` or an exception is raised
\* (by halves)
FormatScan(s, kwargs, st, upto) ==
    IF st.exc # "none" \/ st.i > upto THEN st
    ELSE IF st.i = upto THEN FormatStep(s, kwargs, st)
    ELSE FormatScan(s, kwargs, FormatScan(s, kwargs, st, (st.i + upto) \div 2), upto)

\* s.format(**kwargs): the string returned, or the exception raised
Format(s, kwargs) ==
    LET st == FormatScan(s, kwargs, [i |-> 1, out |-> <<>>, exc |-> "none"], Len(s))
    IN  IF st.exc # "none" THEN Raised(st.exc) ELSE Returned(st.out)

(* ------------------------------------------------------- the templates -- *)
(* EmbeddedInventory.__init__ builds self.models, a list of dicts.  A dict *)
(* is a record with the keys it has; of each template only the fields that *)
(* expansion, the hashes and the look-up maps read are kept.               *)

\* inventory.py lines 111-160
mean_work_loss ==
    [type |-> <<"C", "h", "r", "o", "n", "i", "c", "H", "e", "a", "t">>, path |-> <<"c", "h", "r", "o", "n", "i", "c", "_", "h", "e", "a", "t", "/", "o", "s", "c", "/", "v", "1">>, id |-> <<"m", "e", "a", "n", "_", "w", "o", "r", "k", "_", "l", "o", "s", "s", "/", "{", "i", "n", "t", "e", "n", "s", "i", "t", "y", "}">>,
     params |-> <<[name |-> <<"i", "n", "t", "e", "n", "s", "i", "t", "y">>, values |-> <<<<"h", "i", "g", "h">>, <<"m", "e", "d", "i", "u", "m">>, <<"l", "o", "w">>>>]>>,
     array_name |-> <<"m", "e", "a", "n", "_", "w", "o", "r", "k", "_", "l", "o", "s", "s", "_", "{", "i", "n", "t", "e", "n", "s", "i", "t", "y", "}", "_", "{", "s", "c", "e", "n", "a", "r", "i", "o", "}", "_", "{", "y", "e", "a", "r", "}">>,
     map |-> [array_name |-> <<"m", "e", "a", "n", "_", "w", "o", "r", "k", "_", "l", "o", "s", "s", "_", "{", "i", "n", "t", "e", "n", "s", "i", "t", "y", "}", "_", "{", "s", "c", "e", "n", "a", "r", "i", "o", "}", "_", "{", "y", "e", "a", "r", "}", "_", "m", "a", "p">>],
     scenarios |-> <<[id |-> <<"s", "s", "p", "5", "8", "5">>, years |-> <<2030, 2040, 2050>>],
                     [id |-> <<"s", "s", "p", "2", "4", "5">>, years |-> <<2030, 2040, 2050>>],
                     [id |-> <<"h", "i", "s", "t", "o", "r", "i", "c", "a", "l">>, years |-> <<2010>>]>>]

\* inventory.py lines 164-182
WATCH ==
    [type |-> <<"R", "i", "v", "e", "r", "i", "n", "e", "I", "n", "u", "n", "d", "a", "t", "i", "o", "n">>, path |-> <<"i", "n", "u", "n", "d", "a", "t", "i", "o", "n", "/", "w", "r", "i", "/", "v", "2">>, id |-> <<"0", "0", "0", "0", "0", "0", "0", "0", "0", "W", "A", "T", "C", "H">>,
     array_name |-> <<"i", "n", "u", "n", "r", "i", "v", "e", "r", "_", "{", "s", "c", "e", "n", "a", "r", "i", "o", "}", "_", "{", "i", "d", "}", "_", "{", "y", "e", "a", "r", "}">>,
     map |-> [array_name |-> <<"i", "n", "u", "n", "r", "i", "v", "e", "r", "_", "{", "s", "c", "e", "n", "a", "r", "i", "o", "}", "_", "{", "i", "d", "}", "_", "{", "y", "e", "a", "r", "}", "_", "r", "p", "{", "r", "e", "t", "u", "r", "n", "_", "p", "e", "r", "i", "o", "d", ":", "0", "5", "d", "}">>],
     scenarios |-> <<[id |-> <<"h", "i", "s", "t", "o", "r", "i", "c", "a", "l">>, years |-> <<1980>>,
                      periods |-> <<[year |-> 1980, map_id |-> <<"g", "w", "4", "v", "g", "q">>]>>]>>]

\* inventory.py lines 274-305
MIROC_ESM_CHEM ==
    [type |-> <<"R", "i", "v", "e", "r", "i", "n", "e", "I", "n", "u", "n", "d", "a", "t", "i", "o", "n">>, path |-> <<"i", "n", "u", "n", "d", "a", "t", "i", "o", "n", "/", "w", "r", "i", "/", "v", "2">>, id |-> <<"M", "I", "R", "O", "C", "-", "E", "S", "M", "-", "C", "H", "E", "M">>,
     array_name |-> <<"i", "n", "u", "n", "r", "i", "v", "e", "r", "_", "{", "s", "c", "e", "n", "a", "r", "i", "o", "}", "_", "{", "i", "d", "}", "_", "{", "y", "e", "a", "r", "}">>,
     map |-> [array_name |-> <<"i", "n", "u", "n", "r", "i", "v", "e", "r", "_", "{", "s", "c", "e", "n", "a", "r", "i", "o", "}", "_", "{", "i", "d", "}", "_", "{", "y", "e", "a", "r", "}", "_", "r", "p", "{", "r", "e", "t", "u", "r", "n", "_", "p", "e", "r", "i", "o", "d", ":", "0", "5", "d", "}">>],
     scenarios |-> <<[id |-> <<"r", "c", "p", "4", "p", "5">>, years |-> <<2030, 2050, 2080>>,
                      periods |-> <<[year |-> 2030, map_id |-> <<"h", "t", "2", "k", "n", "3">>],
                                    [year |-> 2050, map_id |-> <<"1", "k", "4", "b", "o", "i">>],
                                    [year |-> 2080, map_id |-> <<"3", "r", "o", "k", "7", "b">>]>>],
                     [id |-> <<"r", "c", "p", "8", "p", "5">>, years |-> <<2030, 2050, 2080>>]>>]

\* inventory.py lines 309-327
nosub ==
    [type |-> <<"C", "o", "a", "s", "t", "a", "l", "I", "n", "u", "n", "d", "a", "t", "i", "o", "n">>, path |-> <<"i", "n", "u", "n", "d", "a", "t", "i", "o", "n", "/", "w", "r", "i", "/", "v", "2">>, id |-> <<"n", "o", "s", "u", "b">>,
     array_name |-> <<"i", "n", "u", "n", "c", "o", "a", "s", "t", "_", "h", "i", "s", "t", "o", "r", "i", "c", "a", "l", "_", "n", "o", "s", "u", "b", "_", "h", "i", "s", "t", "_", "0">>,
     map |-> [array_name |-> <<"i", "n", "u", "n", "c", "o", "a", "s", "t", "_", "h", "i", "s", "t", "o", "r", "i", "c", "a", "l", "_", "n", "o", "s", "u", "b", "_", "h", "i", "s", "t", "_", "r", "p", "{", "r", "e", "t", "u", "r", "n", "_", "p", "e", "r", "i", "o", "d", ":", "0", "4", "d", "}", "_", "0">>],
     scenarios |-> <<[id |-> <<"h", "i", "s", "t", "o", "r", "i", "c", "a", "l">>, years |-> <<1980>>]>>]

(* Further templates of the same shape, for the cases the embedded ones do not     *)
(* show: a recorded hash that is not the computed one; recorded periods that are   *)
(* more or fewer than the years, carry another year, or come in another order;     *)
(* no map; two parameters and a return period without a width; a parameter the id  *)
(* does not mention; a placeholder no parameter resolves.                          *)

WATCH_wrong_hash ==
    [WATCH EXCEPT !.scenarios = <<[id |-> <<"h", "i", "s", "t", "o", "r", "i", "c", "a", "l">>, years |-> <<1980>>,
                                   periods |-> <<[year |-> 1980, map_id |-> <<"g", "w", "4", "v", "g", "x">>]>>]>>]

\* the model of WATCH under another version path; the recorded periods carry other
\* years than the declared one and are more than the declared years
WATCH_v3 ==
    [WATCH EXCEPT !.path = <<"i", "n", "u", "n", "d", "a", "t", "i", "o", "n", "/", "w", "r", "i", "/", "v", "3">>,
                  !.scenarios = <<[id |-> <<"h", "i", "s", "t", "o", "r", "i", "c", "a", "l">>, years |-> <<1980>>,
                                   periods |-> <<[year |-> 1990, map_id |-> <<"g", "w", "4", "v", "g", "q">>],
                                                 [year |-> 2000, map_id |-> <<"z", "z", "z", "z", "z", "z">>]>>]>>]

\* fewer recorded periods than years, and none recorded but an empty list
MIROC_partial ==
    [MIROC_ESM_CHEM EXCEPT !.id = <<"M", "I", "R", "O", "C", "-", "E", "S", "M", "-", "C", "H", "E", "M">>,
        !.path = <<"i", "n", "u", "n", "d", "a", "t", "i", "o", "n", "/", "w", "r", "i", "/", "v", "1">>,
        !.scenarios = <<[id |-> <<"r", "c", "p", "4", "p", "5">>, years |-> <<2030, 2050, 2080>>,
                         periods |-> <<[year |-> 2030, map_id |-> <<"h", "t", "2", "k", "n", "3">>]>>],
                        [id |-> <<"r", "c", "p", "8", "p", "5">>, years |-> <<2030>>, periods |-> <<>>]>>]

\* the recorded periods are those of the years, in another order
MIROC_reordered ==
    [MIROC_ESM_CHEM EXCEPT
        !.scenarios = <<[id |-> <<"r", "c", "p", "4", "p", "5">>, years |-> <<2030, 2050>>,
                         periods |-> <<[year |-> 2050, map_id |-> <<"1", "k", "4", "b", "o", "i">>],
                                       [year |-> 2030, map_id |-> <<"h", "t", "2", "k", "n", "3">>]>>]>>]

no_map ==
    [type |-> <<"C", "h", "r", "o", "n", "i", "c", "H", "e", "a", "t">>, path |-> <<"c", "h", "r", "o", "n", "i", "c", "_", "h", "e", "a", "t", "/", "o", "s", "c", "/", "v", "1">>, id |-> <<"n", "o", "_", "m", "a", "p">>,
     array_name |-> <<"n", "o", "_", "m", "a", "p", "_", "{", "s", "c", "e", "n", "a", "r", "i", "o", "}", "_", "{", "y", "e", "a", "r", "}">>,
     scenarios |-> <<[id |-> <<"h", "i", "s", "t", "o", "r", "i", "c", "a", "l">>, years |-> <<1980, 1990>>,
                      periods |-> <<[year |-> 1980, map_id |-> <<>>]>>],
                     [id |-> <<"s", "s", "p", "5", "8", "5">>, years |-> <<2030>>]>>]

two_params ==
    [type |-> <<"C", "h", "r", "o", "n", "i", "c", "H", "e", "a", "t">>, path |-> <<"c", "h", "r", "o", "n", "i", "c", "_", "h", "e", "a", "t", "/", "o", "s", "c", "/", "v", "2">>, id |-> <<"x", "/", "{", "a", "}", "/", "{", "b", "}">>,
     params |-> <<[name |-> <<"a">>, values |-> <<<<"p">>, <<"q">>>>],
                  [name |-> <<"b">>, values |-> <<<<"r">>, <<"s">>, <<"t">>>>]>>,
     array_name |-> <<"x", "_", "{", "a", "}", "_", "{", "b", "}", "_", "{", "s", "c", "e", "n", "a", "r", "i", "o", "}", "_", "{", "y", "e", "a", "r", "}">>,
     map |-> [array_name |-> <<"x", "_", "{", "a", "}", "_", "{", "b", "}", "_", "{", "s", "c", "e", "n", "a", "r", "i", "o", "}", "_", "{", "y", "e", "a", "r", "}", "_", "{", "r", "e", "t", "u", "r", "n", "_", "p", "e", "r", "i", "o", "d", "}">>],
     scenarios |-> <<[id |-> <<"h", "i", "s", "t", "o", "r", "i", "c", "a", "l">>, years |-> <<1980>>]>>]

param_not_in_id ==
    [type |-> <<"C", "h", "r", "o", "n", "i", "c", "H", "e", "a", "t">>, path |-> <<"c", "h", "r", "o", "n", "i", "c", "_", "h", "e", "a", "t", "/", "o", "s", "c", "/", "v", "2">>, id |-> <<"f", "i", "x", "e", "d">>,
     params |-> <<[name |-> <<"k">>, values |-> <<<<"u">>, <<"v">>>>]>>,
     array_name |-> <<"f", "i", "x", "e", "d", "_", "{", "k", "}", "_", "{", "s", "c", "e", "n", "a", "r", "i", "o", "}", "_", "{", "y", "e", "a", "r", "}">>,
     map |-> [array_name |-> <<"f", "i", "x", "e", "d", "_", "{", "k", "}", "_", "{", "s", "c", "e", "n", "a", "r", "i", "o", "}", "_", "{", "y", "e", "a", "r", "}">>],
     scenarios |-> <<[id |-> <<"h", "i", "s", "t", "o", "r", "i", "c", "a", "l">>, years |-> <<1980>>]>>]

unresolved_placeholder ==
    [type |-> <<"C", "h", "r", "o", "n", "i", "c", "H", "e", "a", "t">>, path |-> <<"c", "h", "r", "o", "n", "i", "c", "_", "h", "e", "a", "t", "/", "o", "s", "c", "/", "v", "2">>, id |-> <<"o", "p", "e", "n", "/", "{", "i", "n", "t", "e", "n", "s", "i", "t", "y", "}">>,
     array_name |-> <<"o", "p", "e", "n", "_", "{", "i", "n", "t", "e", "n", "s", "i", "t", "y", "}", "_", "{", "s", "c", "e", "n", "a", "r", "i", "o", "}", "_", "{", "y", "e", "a", "r", "}">>,
     map |-> [array_name |-> <<"o", "p", "e", "n", "_", "{", "i", "n", "t", "e", "n", "s", "i", "t", "y", "}", "_", "{", "s", "c", "e", "n", "a", "r", "i", "o", "}", "_", "{", "y", "e", "a", "r", "}">>],
     scenarios |-> <<[id |-> <<"h", "i", "s", "t", "o", "r", "i", "c", "a", "l">>, years |-> <<1980>>]>>]

\* a map with an empty array name; the second period it specifies is of no year it has
empty_map_name ==
    [type |-> <<"C", "h", "r", "o", "n", "i", "c", "H", "e", "a", "t">>, path |-> <<"c", "h", "r", "o", "n", "i", "c", "_", "h", "e", "a", "t", "/", "o", "s", "c", "/", "v", "1">>, id |-> <<"e", "m", "p", "t", "y", "_", "m", "a", "p", "_", "n", "a", "m", "e">>,
     array_name |-> <<"e", "m", "p", "t", "y", "_", "m", "a", "p", "_", "n", "a", "m", "e", "_", "{", "s", "c", "e", "n", "a", "r", "i", "o", "}", "_", "{", "y", "e", "a", "r", "}">>,
     map |-> [array_name |-> <<>>],
     scenarios |-> <<[id |-> <<"h", "i", "s", "t", "o", "r", "i", "c", "a", "l">>, years |-> <<1980>>,
                      periods |-> <<[year |-> 1980, map_id |-> <<>>],
                                    [year |-> 1990, map_id |-> <<"a", "b", "c", "1", "2", "3">>]>>]>>]

\* no map, and a hash specified for its one year
no_map_with_hash ==
    [type |-> <<"C", "h", "r", "o", "n", "i", "c", "H", "e", "a", "t">>, path |-> <<"c", "h", "r", "o", "n", "i", "c", "_", "h", "e", "a", "t", "/", "o", "s", "c", "/", "v", "1">>, id |-> <<"n", "o", "_", "m", "a", "p", "_", "w", "i", "t", "h", "_", "h", "a", "s", "h">>,
     array_name |-> <<"n", "o", "_", "m", "a", "p", "_", "w", "i", "t", "h", "_", "h", "a", "s", "h", "_", "{", "s", "c", "e", "n", "a", "r", "i", "o", "}", "_", "{", "y", "e", "a", "r", "}">>,
     scenarios |-> <<[id |-> <<"h", "i", "s", "t", "o", "r", "i", "c", "a", "l">>, years |-> <<1980>>,
                      periods |-> <<[year |-> 1980, map_id |-> <<"a", "b", "c", "1", "2", "3">>]>>]>>]

Pool == {mean_work_loss, WATCH, MIROC_ESM_CHEM, nosub, WATCH_wrong_hash, WATCH_v3, MIROC_partial,
         MIROC_reordered, no_map, two_params, param_not_in_id, unresolved_placeholder,
         empty_map_name, no_map_with_hash}

\* the longest list of templates
MaxModels == 2

\* the lists self.models ranges over
Catalogs == UNION {[1..n -> Pool] : n \in 1..MaxModels}

(* ----------------------------------------------- HazardResource, Scenario -- *)

None    == [isNone |-> TRUE, v |-> <<>>]
Some(v) == [isNone |-> FALSE, v |-> v]

Period(year, map_id) == [year |-> year, map_id |-> map_id]

\* Scenario: id, years, and the optional periods
ParseScenario(d) ==
    [id |-> d.id, years |-> d.years,
     periods |-> IF "periods" \in DOMAIN d THEN Some(d.periods) ELSE None]

\* HazardResource: the optional params default to {}, the optional map to None
ParseHazardResource(d) ==
    [type |-> d.type, path |-> d.path, id |-> d.id,
     params |-> IF "params" \in DOMAIN d THEN d.params ELSE <<>>,
     array_name |-> d.array_name,
     map |-> IF "map" \in DOMAIN d THEN Some([array_name |-> d.map.array_name]) ELSE None,
     scenarios |-> [i \in 1..Len(d.scenarios) |-> ParseScenario(d.scenarios[i])]]

\* parse_obj_as(List[HazardResource], self.models): new objects, self.models is not touched
ParseObjAs(dicts) == [i \in 1..Len(dicts) |-> ParseHazardResource(dicts[i])]

RECURSIVE ConcatAll(_)
\* the lists of a list, one after the other
ConcatAll(lists) == IF lists = <<>> THEN <<>> ELSE lists[1] \o ConcatAll(Tail(lists))

Placeholder(name) == <<"{">> \o name \o <<"}">>

\* the resource with {key} replaced by param in its id and array names
Substitute(resource, key, param) ==
    [resource EXCEPT
        !.id = Replace(resource.id, Placeholder(key), param),
        !.array_name = Replace(resource.array_name, Placeholder(key), param),
        !.map = IF resource.map.isNone THEN None
                ELSE Some([array_name |-> Replace(resource.map.v.array_name, Placeholder(key), param)])]

RECURSIVE expand_resource(_, _)
\* one resource for each combination of the values of the parameters `params`, the
\* later parameters varying fastest; each has its own copy of the scenarios
expand_resource(resource, params) ==
    IF params = <<>> THEN <<resource>>
    ELSE ConcatAll([i \in 1..Len(params[1].values) |->
                       expand_resource(Substitute(resource, params[1].name, params[1].values[i]),
                                       Tail(params))])

\* HazardResource.expand()
expand(model) == expand_resource(model, model.params)

\* HazardResource.key(): the path and the id
key(resource) == resource.path \o resource.id

(* ----------------------------------------------------------- to_resources -- *)

\* the return period the map array name is rendered with
ProbeReturnPeriod == 1000

\* the number of characters of the hash that are kept
MapIdLen == 6

\* (mutant) the models are taken as they are, not expanded
ExpandAll_not_expanded(parsed) == parsed

\* (mutant) the list is kept from call to call and extended by each
ExpandAll_accumulates(parsed) ==
    (IF runs # <<>> /\ runs[Len(runs)].exc = "none" THEN runs[Len(runs)].resources ELSE <<>>) \o
    ConcatAll([i \in 1..Len(parsed) |-> expand(parsed[i])])

\* [e for model in models for e in model.expand()]
ExpandAll(parsed) == ConcatAll([i \in 1..Len(parsed) |-> expand(parsed[i])])

\* (mutant) model.map alone is tested
HasMapName_map_only(model) == ~model.map.isNone

\* model.map and model.map.array_name
HasMapName(model) == ~model.map.isNone /\ model.map.v.array_name # <<>>

\* (mutant) the array name rendered with a return period of 100
ArrayName_other_return_period(model, scenario, year) ==
    Format(model.map.v.array_name,
           (<<"s", "c", "e", "n", "a", "r", "i", "o">> :> StrVal(scenario.id)) @@ (<<"y", "e", "a", "r">> :> IntVal(year)) @@
           (<<"i", "d">> :> StrVal(model.id)) @@ (<<"r", "e", "t", "u", "r", "n", "_", "p", "e", "r", "i", "o", "d">> :> IntVal(100)))

\* name_format.format(scenario=scenario.id, year=year, id=model.id, return_period=1000)
ArrayName(model, scenario, year) ==
    Format(model.map.v.array_name,
           (<<"s", "c", "e", "n", "a", "r", "i", "o">> :> StrVal(scenario.id)) @@ (<<"y", "e", "a", "r">> :> IntVal(year)) @@
           (<<"i", "d">> :> StrVal(model.id)) @@ (<<"r", "e", "t", "u", "r", "n", "_", "p", "e", "r", "i", "o", "d">> :> IntVal(ProbeReturnPeriod)))

\* every resource the templates of the pool expand to
AllExpanded ==
    UNION {{expand(ParseHazardResource(d))[k] : k \in 1..Len(expand(ParseHazardResource(d)))} :
           d \in Pool}

\* every array name to_resources can hash for a catalog of the pool
HashedTexts ==
    UNION {UNION {{ArrayName(e, e.scenarios[i], e.scenarios[i].years[j]).val :
                      j \in {j \in 1..Len(e.scenarios[i].years) : HasMapName(e)}} :
                  i \in 1..Len(e.scenarios)} :
           e \in AllExpanded}

\* alphanumeric(text) of each of these texts, computed once
HashTable == {<<text, alphanumeric(text)>> : text \in HashedTexts}

\* alphanumeric(text), looked up
Hash(text) == (CHOOSE p \in HashTable : p[1] = text)[2]

\* lines 492-499 for one year: the id is alphanumeric(array_name)[0:6], or "" without a
\* map array name; `hashed` is the array name that was hashed, if any
MapId(model, scenario, year) ==
    IF HasMapName(model)
    THEN LET array_name == ArrayName(model, scenario, year)
         IN  IF array_name.exc # "none"
             THEN [exc |-> array_name.exc, val |-> <<>>, hashed |-> <<>>]
             ELSE [exc |-> "none", val |-> Slice0(Hash(array_name.val).val, MapIdLen),
                   hashed |-> <<array_name.val>>]
    ELSE [exc |-> "none", val |-> <<>>, hashed |-> <<>>]

\* lines 491-500 for every year of the scenario
MapIds(model, scenario) ==
    [j \in 1..Len(scenario.years) |-> MapId(model, scenario, scenario.years[j])]

First(S) == CHOOSE i \in S : \A k \in S : i <= k

\* the years at which the rendering raises, and the number of years done before the first
RaisedAt(ids) == {j \in 1..Len(ids) : ids[j].exc # "none"}
Completed(ids) == IF RaisedAt(ids) = {} THEN Len(ids) ELSE First(RaisedAt(ids)) - 1

\* (mutant) line 490 left out: the new periods are appended to the declared ones
NewPeriods_not_reset(scenario, ids) ==
    (IF scenario.periods.isNone THEN <<>> ELSE scenario.periods.v) \o
    [j \in 1..Len(ids) |-> Period(scenario.years[j], ids[j].val)]

\* scenario.periods as lines 490 and 500 build it
NewPeriods(scenario, ids) == [j \in 1..Completed(ids) |-> Period(scenario.years[j], ids[j].val)]
\* the array names hashed on the way
HashedNames(ids) == ConcatAll([j \in 1..Completed(ids) |-> ids[j].hashed])

\* (mutant) the last pair of the zip is left out
Zip_but_last(periods, test_periods) == 1..(Min(Len(periods), Len(test_periods)) - 1)

\* zip(scenario.periods, test_periods): the positions both lists have
Zip(periods, test_periods) == 1..Min(Len(periods), Len(test_periods))

\* (mutant) the comparison of line 504 inverted
Mismatches_inverted(periods, test_periods) ==
    {i \in Zip(periods, test_periods) : periods[i].map_id = test_periods[i].map_id}

\* the positions at which the hash differs from the specified one
Mismatches(periods, test_periods) ==
    {i \in Zip(periods, test_periods) : periods[i].map_id # test_periods[i].map_id}

\* lines 502-507: the exception raised ("none" if none) and the two hashes its message names
Validate(periods, test_periods) ==
    IF test_periods.isNone THEN [exc |-> "none", computed |-> <<>>, expected |-> <<>>]
    ELSE IF Mismatches(periods, test_periods.v) = {}
    THEN [exc |-> "none", computed |-> <<>>, expected |-> <<>>]
    ELSE [exc |-> "Exception",
          computed |-> periods[First(Mismatches(periods, test_periods.v))].map_id,
          expected |-> test_periods.v[First(Mismatches(periods, test_periods.v))].map_id]

\* the outcome of the body of "for scenario in model.scenarios", given the ids of the years
ResolveWith(scenario, ids) ==
    IF RaisedAt(ids) # {}
    THEN [exc |-> ids[First(RaisedAt(ids))].exc, computed |-> <<>>, expected |-> <<>>,
          periods |-> NewPeriods(scenario, ids), hashed |-> HashedNames(ids)]
    ELSE [exc      |-> Validate(NewPeriods(scenario, ids), scenario.periods).exc,
          computed |-> Validate(NewPeriods(scenario, ids), scenario.periods).computed,
          expected |-> Validate(NewPeriods(scenario, ids), scenario.periods).expected,
          periods  |-> NewPeriods(scenario, ids), hashed |-> HashedNames(ids)]

\* (mutant) test_periods is what the same scenario of the resource before was left with
ResolveOutcome_of_shared_scenario(model, scenario) ==
    ResolveWith([scenario EXCEPT !.periods =
                    IF mi > 1 /\ si <= Len(expanded_models[mi - 1].scenarios)
                    THEN expanded_models[mi - 1].scenarios[si].periods ELSE @],
                MapIds(model, scenario))

\* what the body of "for scenario in model.scenarios" (lines 489-507) comes to: the
\* exception it raises ("none" if none) with the two hashes its message names, the
\* new periods of the scenario, and the array names it hashed
ResolveOutcome(model, scenario) == ResolveWith(scenario, MapIds(model, scenario))

(* -------------------------------------------------------------- Inventory -- *)

\* d[k] = v of a dict: a later value for the same key replaces the earlier one
SetItem(d, k, v) == (k :> v) @@ d

\* (mutant) the list of k is replaced by one of v alone
AppendItem_replaces(d, k, v) == (k :> <<v>>) @@ d

\* d[k].append(v) of a defaultdict(list)
AppendItem(d, k, v) == (k :> (IF k \in DOMAIN d THEN Append(d[k], v) ELSE <<v>>)) @@ d

\* d[k] of a defaultdict(list) without the key k: the key is added with an empty list
Missing(d, k) == (k :> <<>>) @@ d

TypeId(resource) == <<resource.type, resource.id>>

\* the keys and the (type, id) pairs that are looked up: one of WATCH, one of nothing
LookupKeys == {key(ParseHazardResource(WATCH)), <<"i", "n", "u", "n", "d", "a", "t", "i", "o", "n", "/", "w", "r", "i", "/", "v", "2", "/", "n", "o", "n", "e">>}
LookupTypeIds == {TypeId(ParseHazardResource(WATCH)), <<<<"W", "i", "n", "d">>, <<"n", "o", "n", "e">>>>}

(* ------------------------------------------------------------------ state -- *)

to_resources_vars == <<expanded_models, mi, si, hashed, runs>>
inventory_vars == <<hazard_resources, ri, resources, resources_by_type_id, found>>
base36_vars == <<given, encoded>>

\* the calls of to_resources made on one EmbeddedInventory
MaxRuns == 2

NoLookup == [op |-> "none", arg |-> <<>>, result |-> <<>>]

NotCalled == [exc |-> "not called", val |-> <<>>]

Init ==
    /\ models \in Catalogs
    /\ pc = "idle"
    /\ expanded_models = <<>>
    /\ mi = 1
    /\ si = 1
    /\ hashed = <<>>
    /\ runs = <<>>
    /\ hazard_resources = <<>>
    /\ ri = 1
    /\ resources = <<>>
    /\ resources_by_type_id = <<>>
    /\ found = NoLookup
    /\ given = PyNat(0)
    /\ encoded = NotCalled

ReturnedResources(list) == [exc |-> "none", resources |-> list, computed |-> <<>>, expected |-> <<>>]
RaisedError(exc, computed, expected) ==
    [exc |-> exc, resources |-> <<>>, computed |-> computed, expected |-> expected]

\* to_resources is called: lines 484-485
ToResourcesCall ==
    /\ pc = "idle"
    /\ Len(runs) < MaxRuns
    /\ expanded_models' = ExpandAll(ParseObjAs(models))
    /\ mi' = 1
    /\ si' = 1
    /\ hashed' = <<>>
    /\ pc' = "resolving"
    /\ UNCHANGED <<models, base36_vars, runs, inventory_vars>>

\* one round of "for scenario in model.scenarios" that ends without an exception: lines 488-507
ResolveScenario ==
    /\ pc = "resolving"
    /\ mi <= Len(expanded_models)
    /\ si <= Len(expanded_models[mi].scenarios)
    /\ LET outcome == ResolveOutcome(expanded_models[mi], expanded_models[mi].scenarios[si])
       IN  /\ outcome.exc = "none"
           /\ expanded_models' =
                 [expanded_models EXCEPT ![mi].scenarios[si].periods = Some(outcome.periods)]
           /\ hashed' = hashed \o outcome.hashed
    /\ si' = si + 1
    /\ UNCHANGED <<models, base36_vars, pc, mi, runs, inventory_vars>>

\* the round raises: str.format fails (line 494), or a hash differs from the specified
\* one (lines 503-507); to_resources ends and returns nothing
ResolveRaise ==
    /\ pc = "resolving"
    /\ mi <= Len(expanded_models)
    /\ si <= Len(expanded_models[mi].scenarios)
    /\ LET outcome == ResolveOutcome(expanded_models[mi], expanded_models[mi].scenarios[si])
       IN  /\ outcome.exc # "none"
           /\ runs' = Append(runs, RaisedError(outcome.exc, outcome.computed, outcome.expected))
           /\ hashed' = hashed \o outcome.hashed
    /\ expanded_models' = <<>>
    /\ mi' = 1
    /\ si' = 1
    /\ pc' = "idle"
    /\ UNCHANGED <<models, base36_vars, inventory_vars>>

\* "for model in expanded_models": the scenarios of a model are done
NextModel ==
    /\ pc = "resolving"
    /\ mi <= Len(expanded_models)
    /\ si > Len(expanded_models[mi].scenarios)
    /\ mi' = mi + 1
    /\ si' = 1
    /\ UNCHANGED <<models, base36_vars, pc, expanded_models, hashed, runs, inventory_vars>>

\* return expanded_models: line 509
ToResourcesReturn ==
    /\ pc = "resolving"
    /\ mi > Len(expanded_models)
    /\ runs' = Append(runs, ReturnedResources(expanded_models))
    /\ expanded_models' = <<>>
    /\ mi' = 1
    /\ si' = 1
    /\ pc' = "idle"
    /\ UNCHANGED <<models, base36_vars, hashed, inventory_vars>>

\* Inventory(hazard_resources) is called with what to_resources returned: lines 53-54
InventoryCall ==
    /\ pc = "idle"
    /\ runs # <<>>
    /\ runs[Len(runs)].exc = "none"
    /\ hazard_resources' = runs[Len(runs)].resources
    /\ ri' = 1
    /\ resources' = <<>>
    /\ resources_by_type_id' = <<>>
    /\ pc' = "indexing"
    /\ UNCHANGED <<models, base36_vars, to_resources_vars, found>>

\* one round of "for resource in hazard_resources": lines 55-57
InventoryAdd ==
    /\ pc = "indexing"
    /\ ri <= Len(hazard_resources)
    /\ LET resource == hazard_resources[ri]
       IN  /\ resources' = SetItem(resources, key(resource), resource)
           /\ resources_by_type_id' = AppendItem(resources_by_type_id, TypeId(resource), resource)
    /\ ri' = ri + 1
    /\ UNCHANGED <<models, base36_vars, pc, to_resources_vars, hazard_resources, found>>

\* the constructor returns
InventoryReturn ==
    /\ pc = "indexing"
    /\ ri > Len(hazard_resources)
    /\ pc' = "built"
    /\ UNCHANGED <<models, base36_vars, to_resources_vars, inventory_vars>>

\* inventory.resources.get(k): the resource, or None
LookupByKey ==
    /\ pc = "built"
    /\ \E k \in LookupKeys :
          found' = [op |-> "key", arg |-> k,
                    result |-> IF k \in DOMAIN resources THEN <<resources[k]>> ELSE <<>>]
    /\ UNCHANGED <<models, base36_vars, pc, to_resources_vars, hazard_resources, ri, resources, resources_by_type_id>>

\* inventory.resources_by_type_id[k] of the defaultdict(list) of line 54
LookupByTypeId ==
    /\ pc = "built"
    /\ \E k \in LookupTypeIds :
          /\ found' = [op |-> "type_id", arg |-> k,
                       result |-> IF k \in DOMAIN resources_by_type_id
                                  THEN resources_by_type_id[k] ELSE <<>>]
          /\ resources_by_type_id' = IF k \in DOMAIN resources_by_type_id
                                     THEN resources_by_type_id
                                     ELSE Missing(resources_by_type_id, k)
    /\ UNCHANGED <<models, base36_vars, pc, to_resources_vars, hazard_resources, ri, resources>>

Next ==
    \/ ToResourcesCall
    \/ ResolveScenario
    \/ ResolveRaise
    \/ NextModel
    \/ ToResourcesReturn
    \/ InventoryCall
    \/ InventoryAdd
    \/ InventoryReturn
    \/ LookupByKey
    \/ LookupByTypeId

Spec == Init /\ [][Next]_vars

(* ----------------------------------------------------------- base36encode -- *)

\* the integers from 0 that base36encode is called with
MaxNumber == 1400

\* 36^4 - 1, 36^4, 2^16, 2^32 - 1, 2^32, 2^160 - 1 (the largest SHA-1 digest) and 2^160
LargeNumbers ==
    {PyInt(FALSE, <<25, 41215>>), PyInt(FALSE, <<25, 41216>>), PyInt(FALSE, <<1, 0>>),
     PyInt(FALSE, <<65535, 65535>>), PyInt(FALSE, <<1, 0, 0>>),
     PyInt(FALSE, [i \in 1..10 |-> 65535]), PyInt(FALSE, [i \in 1..11 |-> IF i = 1 THEN 1 ELSE 0])}

\* -1, -35, -36, -2^16
NegativeNumbers ==
    {PyInt(TRUE, <<1>>), PyInt(TRUE, <<35>>), PyInt(TRUE, <<36>>), PyInt(TRUE, <<1, 0>>)}

\* 36.0, "36" and None: values that are not instances of int
NotIntegers ==
    {[type |-> "float", neg |-> FALSE, mag |-> <<36>>],
     [type |-> "str", neg |-> FALSE, mag |-> <<36>>],
     [type |-> "NoneType", neg |-> FALSE, mag |-> <<>>]}

Numbers ==
    {PyNat(k) : k \in 0..MaxNumber} \cup LargeNumbers \cup NegativeNumbers \cup NotIntegers

InitEncode ==
    /\ models = <<>>
    /\ pc = "idle"
    /\ expanded_models = <<>>
    /\ mi = 1
    /\ si = 1
    /\ hashed = <<>>
    /\ runs = <<>>
    /\ hazard_resources = <<>>
    /\ ri = 1
    /\ resources = <<>>
    /\ resources_by_type_id = <<>>
    /\ found = NoLookup
    /\ given \in Numbers
    /\ encoded = NotCalled

\* base36encode(given) is called: lines 522-539
Base36Encode ==
    /\ encoded = NotCalled
    /\ encoded' = base36encode(given)
    /\ UNCHANGED <<models, pc, to_resources_vars, inventory_vars, given>>

NextEncode == Base36Encode

SpecEncode == InitEncode /\ [][NextEncode]_vars

(* ------------------------------------------------------------- properties -- *)

\* a call of to_resources has ended and nothing was done since
Finished == pc = "idle" /\ runs # <<>>
LastRun == runs[Len(runs)]

\* the resources of the catalog as expanded, before any period is resolved
Expanded == ExpandAll(ParseObjAs(models))

\* the ids of the years of scenario j of an expanded resource e, freshly computed (for
\* every resource of the pool, computed once)
FreshTable ==
    UNION {{<<e, j, MapIds(e, e.scenarios[j])>> : j \in 1..Len(e.scenarios)} : e \in AllExpanded}
Fresh(e, j) == (CHOOSE p \in FreshTable : p[1] = e /\ p[2] = j)[3]

Renders(e, j) == \A y \in 1..Len(e.scenarios[j].years) : Fresh(e, j)[y].exc = "none"

\* the periods scenario j of e declares are those of its years, each with the fresh id
ExactlyMatches(e, j) ==
    LET sc == e.scenarios[j]
    IN  \/ sc.periods.isNone
        \/ /\ Len(sc.periods.v) = Len(sc.years)
           /\ \A p \in 1..Len(sc.years) :
                 /\ sc.periods.v[p].year = sc.years[p]
                 /\ sc.periods.v[p].map_id = Fresh(e, j)[p].val

\* the p-th period scenario j of e declares has another id than the fresh one of the p-th year
DiffersAt(e, j, p) ==
    LET sc == e.scenarios[j]
    IN  /\ ~sc.periods.isNone
        /\ p \in 1..Min(Len(sc.periods.v), Len(sc.years))
        /\ sc.periods.v[p].map_id # Fresh(e, j)[p].val

C2_PeriodPerYear ==
    (Finished /\ LastRun.exc = "none") =>
        LET E == Expanded
        IN  /\ Len(LastRun.resources) = Len(E)
            /\ \A r \in 1..Len(E) : \A j \in 1..Len(E[r].scenarios) :
                  LET sc == LastRun.resources[r].scenarios[j]
                  IN  /\ sc.years = E[r].scenarios[j].years
                      /\ ~sc.periods.isNone
                      /\ Len(sc.periods.v) = Len(sc.years)
                      /\ \A y \in 1..Len(sc.years) :
                            /\ sc.periods.v[y].year = sc.years[y]
                            /\ sc.periods.v[y].map_id = Fresh(E[r], j)[y].val

\* a call returned the resource of a template that declares two periods, of other years,
\* for its one year
C2_Witness ==
    /\ Finished
    /\ LastRun.exc = "none"
    /\ models[1] = WATCH_v3
    /\ LastRun.resources[1].scenarios[1].periods.v = <<Period(1980, <<"g", "w", "4", "v", "g", "q">>)>>

\* the parameters a template declares
Declared(d) == IF "params" \in DOMAIN d THEN d.params ELSE <<>>

RECURSIVE Combinations(_)
\* the number of combinations of the values of the parameters
Combinations(params) ==
    IF params = <<>> THEN 1 ELSE Len(params[1].values) * Combinations(Tail(params))

RECURSIVE Before(_)
\* the number of resources the first t templates of the catalog should expand to
Before(t) == IF t = 0 THEN 0 ELSE Before(t - 1) + Combinations(Declared(models[t]))

\* the ids of the resources that template t of the catalog expanded to
IdsOf(t) ==
    [k \in 1..Combinations(Declared(models[t])) |-> expanded_models[Before(t - 1) + k].id]

Distinct(ids) == \A a, b \in 1..Len(ids) : a # b => ids[a] # ids[b]

\* the id of the template has the placeholder of each of its parameters
IdNamesAll(d) ==
    \A i \in 1..Len(Declared(d)) : Contains(d.id, <<"{">> \o Declared(d)[i].name \o <<"}">>)

TypeIds == {TypeId(hazard_resources[i]) : i \in 1..Len(hazard_resources)}

\* the resources that have the pair, in the order of the input
WithTypeId(k) == SelectSeq(hazard_resources, LAMBDA r : TypeId(r) = k)

RECURSIVE SumLen(_, _)
\* the sum of the lengths of the lists d has for the keys in K
SumLen(d, K) ==
    IF K = {} THEN 0
    ELSE LET k == CHOOSE k \in K : TRUE IN Len(d[k]) + SumLen(d, K \ {k})

\* C4: when the Inventory is constructed, resources_by_type_id has the (type, id) pairs of
\* the resources as its keys, each with the resources of that pair, at least one, in the
\* order of the input, and the lengths of the lists sum to the number of resources; a lookup
\* of a pair that no resource has gives the empty list
C4_TypeIdIndex ==
    /\ (pc = "built" /\ found = NoLookup) =>
          /\ DOMAIN resources_by_type_id = TypeIds
          /\ \A k \in TypeIds :
                /\ resources_by_type_id[k] = WithTypeId(k)
                /\ resources_by_type_id[k] # <<>>
          /\ SumLen(resources_by_type_id, TypeIds) = Len(hazard_resources)
    /\ (pc = "built" /\ found.op = "type_id" /\ found.arg \notin TypeIds) => found.result = <<>>
    /\ (pc = "built" /\ found.op = "type_id" /\ found.arg \in TypeIds) =>
          found.result = WithTypeId(found.arg)

\* an Inventory of three resources of two pairs was made, two of the resources sharing a
\* pair, and a pair that no resource has was looked up
C4_Witness ==
    /\ pc = "built"
    /\ Len(hazard_resources) = 3
    /\ Cardinality(TypeIds) = 2
    /\ \E k \in TypeIds : Len(resources_by_type_id[k]) = 2
    /\ found.op = "type_id"
    /\ found.arg \notin TypeIds
    /\ found.result = <<>>

\* C5: a constructed Inventory has one entry of `resources` for each resource it was made
\* of: no resource replaced an earlier one of the same key
C5_OneEntryPerResource ==
    pc = "built" => Cardinality(DOMAIN resources) = Len(hazard_resources)

\* C9: once the Inventory is constructed, no step changes resources or resources_by_type_id
C9_ReadOnly ==
    [][pc = "built" => (resources' = resources /\ resources_by_type_id' = resources_by_type_id)]_vars

\* the characters 0-9 and a-z
IsAlphanumeric(c) == Ord[c] \in (48..57) \cup (97..122)

\* C6: when a call of to_resources has returned, every id of a period has at most 6
\* characters, each of 0-9 and a-z; for a resource with a map array name it is the first 6
\* characters of alphanumeric(the rendered name), all of them if there are fewer than 6,
\* and for a resource without one it is empty
C6_MapIdShape ==
    (Finished /\ LastRun.exc = "none") =>
        LET E == Expanded
        IN  \A r \in 1..Len(E) : \A j \in 1..Len(E[r].scenarios) :
               \A y \in 1..Len(E[r].scenarios[j].years) :
                  LET map_id == LastRun.resources[r].scenarios[j].periods.v[y].map_id
                      names  == Fresh(E[r], j)[y].hashed
                  IN  /\ Len(map_id) <= 6
                      /\ \A c \in 1..Len(map_id) : IsAlphanumeric(map_id[c])
                      /\ HasMapName(E[r]) =>
                            /\ Len(names) = 1
                            /\ LET full == Hash(names[1]).val
                               IN  map_id = IF Len(full) < 6 THEN full ELSE SubSeq(full, 1, 6)
                      /\ ~HasMapName(E[r]) => map_id = <<>>

\* a call returned resources with an id of 6 characters and, for a resource without a map,
\* an empty id
C6_Witness ==
    /\ Finished
    /\ LastRun.exc = "none"
    /\ Len(LastRun.resources) = 2
    /\ LastRun.resources[1].scenarios[1].periods.v[1].map_id = <<"5", "m", "c", "w", "j", "r">>
    /\ LastRun.resources[2].scenarios[1].periods.v[1].map_id = <<>>

\* the map array name of a resource for a scenario and a year, by replacement of the fields
Rendered(e, scenario, year) ==
    Replace(Replace(Replace(Replace(Replace(Replace(e.map.v.array_name,
        <<"{", "s", "c", "e", "n", "a", "r", "i", "o", "}">>, scenario.id),
        <<"{", "y", "e", "a", "r", "}">>, StrNat(year)),
        <<"{", "i", "d", "}">>, e.id),
        <<"{", "r", "e", "t", "u", "r", "n", "_", "p", "e", "r", "i", "o", "d", ":", "0", "5", "d", "}">>, <<"0", "1", "0", "0", "0">>),
        <<"{", "r", "e", "t", "u", "r", "n", "_", "p", "e", "r", "i", "o", "d", ":", "0", "4", "d", "}">>, <<"1", "0", "0", "0">>),
        <<"{", "r", "e", "t", "u", "r", "n", "_", "p", "e", "r", "i", "o", "d", "}">>, <<"1", "0", "0", "0">>)

\* the names of the years of scenario j of e (for every resource of the pool, computed once)
RenderedTable ==
    UNION {{<<e, j, [y \in 1..Len(e.scenarios[j].years) |->
                        Rendered(e, e.scenarios[j], e.scenarios[j].years[y])]>> :
              j \in {j \in 1..Len(e.scenarios) : HasMapName(e)}} : e \in AllExpanded}
RenderedNames(e, j) ==
    IF HasMapName(e) THEN (CHOOSE p \in RenderedTable : p[1] = e /\ p[2] = j)[3] ELSE <<>>

\* alphanumeric of the name of the 1980 map of WATCH
WATCH_1980 == alphanumeric(<<"i", "n", "u", "n", "r", "i", "v", "e", "r", "_", "h", "i", "s", "t", "o", "r", "i", "c", "a", "l", "_", "0", "0", "0", "0", "0", "0", "0", "0", "0", "W", "A", "T", "C", "H", "_", "1", "9", "8", "0", "_", "r", "p", "0", "1", "0", "0", "0">>)

\* C7: when a call of to_resources has returned, the texts that were hashed are, resource
\* after resource, scenario after scenario and year after year, the map array names with
\* {scenario} replaced by the id of the scenario, {year} by the year, {id} by the id of the
\* resource and {return_period} by 1000 (01000 with :05d, 1000 with :04d), and each id is
\* the first 6 characters of alphanumeric of that text; so the 1980 id of WATCH is the first
\* 6 characters of alphanumeric('inunriver_historical_000000000WATCH_1980_rp01000')
C7_Rendering ==
    (Finished /\ LastRun.exc = "none") =>
        LET E == Expanded
        IN  /\ hashed = ConcatAll([r \in 1..Len(E) |->
                            ConcatAll([j \in 1..Len(E[r].scenarios) |-> RenderedNames(E[r], j)])])
            /\ \A r \in 1..Len(E) : \A j \in 1..Len(E[r].scenarios) :
                  \A y \in 1..Len(RenderedNames(E[r], j)) :
                     /\ RenderedNames(E[r], j)[y] \in HashedTexts
                     /\ LastRun.resources[r].scenarios[j].periods.v[y].map_id =
                           SubSeq(Hash(RenderedNames(E[r], j)[y]).val, 1, 6)
            /\ \A t \in 1..Len(models) :
                  models[t] = WATCH =>
                      LastRun.resources[Before(t - 1) + 1].scenarios[1].periods.v[1] =
                          Period(1980, SubSeq(WATCH_1980.val, 1, 6))

\* a call returned after it hashed the name of the 1980 map of WATCH and a name with a
\* return period of 4 digits
C7_Witness ==
    /\ Finished
    /\ LastRun.exc = "none"
    /\ hashed = <<<<"i", "n", "u", "n", "r", "i", "v", "e", "r", "_", "h", "i", "s", "t", "o", "r", "i", "c", "a", "l", "_", "0", "0", "0", "0", "0", "0", "0", "0", "0", "W", "A", "T", "C", "H", "_", "1", "9", "8", "0", "_", "r", "p", "0", "1", "0", "0", "0">>,
                  <<"i", "n", "u", "n", "c", "o", "a", "s", "t", "_", "h", "i", "s", "t", "o", "r", "i", "c", "a", "l", "_", "n", "o", "s", "u", "b", "_", "h", "i", "s", "t", "_", "r", "p", "1", "0", "0", "0", "_", "0">>>>

NoMapName(d) == "map" \notin DOMAIN d \/ d.map.array_name = <<>>

\* the template that resource r of the expanded list comes from
TemplateOf(r) == CHOOSE t \in 1..Len(models) : Before(t - 1) < r /\ r <= Before(t)

\* the number of years of the scenarios of the resources that have a map array name
YearsWithName(E) ==
    Len(ConcatAll([r \in 1..Len(E) |->
            IF NoMapName(models[TemplateOf(r)]) THEN <<>>
            ELSE ConcatAll([j \in 1..Len(E[r].scenarios) |-> E[r].scenarios[j].years])]))

\* the resources, scenarios and positions, among the first n of the specified periods, at
\* which a resource without map array name specifies a hash that is not empty
WithHash(E, upto_years) ==
    {t \in (1..Len(E)) \X (1..3) \X (1..3) :
        /\ NoMapName(models[TemplateOf(t[1])])
        /\ t[2] <= Len(E[t[1]].scenarios)
        /\ LET sc == E[t[1]].scenarios[t[2]]
           IN  /\ ~sc.periods.isNone
               /\ t[3] <= Len(sc.periods.v)
               /\ upto_years => t[3] <= Len(sc.years)
               /\ sc.periods.v[t[3]].map_id # <<>>}

DigitValue(c) == IF Ord[c] <= 57 THEN Ord[c] - 48 ELSE Ord[c] - 97 + 10

RECURSIVE TimesPlus(_, _, _, _)
\* the limbs up to position i times m, plus a: the limbs of the result, most significant first
TimesPlus(limbs, i, m, a) ==
    IF i = 0 THEN (IF a = 0 THEN <<>> ELSE <<a>>)
    ELSE LET cur == limbs[i] * m + a
         IN  Append(TimesPlus(limbs, i - 1, m, cur \div Half), cur % Half)

RECURSIVE DecodeTo(_, _, _)
\* the number read from the digits of `text` after the first st.i, up to digit `upto`
\* (by halves), st.mag being the number read from the first st.i digits
DecodeTo(text, st, upto) ==
    IF st.i >= upto THEN st
    ELSE IF st.i + 1 = upto
         THEN [i |-> upto,
               mag |-> StripZeros(TimesPlus(st.mag, Len(st.mag), 36, DigitValue(text[upto])))]
    ELSE DecodeTo(text, DecodeTo(text, st, (st.i + upto) \div 2), upto)

\* the magnitude that the text denotes in base 36, most significant digit first
Decode(text) == DecodeTo(text, [i |-> 0, mag |-> <<>>], Len(text)).mag

\* C12: base36encode of an int that is not negative returns a text that is not empty, of
\* characters 0-9 and a-z, that starts with 0 only if it is "0" and the number is 0, and that
\* denotes the number in base 36, most significant digit first; of a negative int, and of a
\* value that is not an int, it raises TypeError
C12_Canonical ==
    encoded # NotCalled =>
        IF given.type = "int" /\ ~given.neg
        THEN /\ encoded.exc = "none"
             /\ encoded.val # <<>>
             /\ \A c \in 1..Len(encoded.val) : IsAlphanumeric(encoded.val[c])
             /\ encoded.val[1] = "0" => (encoded.val = <<"0">> /\ given.mag = <<>>)
             /\ Decode(encoded.val) = given.mag
        ELSE encoded = Raised("TypeError")

\* base36encode was called with 2^160 - 1 and returned 31 digits
C12_Witness ==
    /\ given = PyInt(FALSE, [i \in 1..10 |-> 65535])
    /\ encoded.exc = "none"
    /\ Len(encoded.val) = 31

\* the template declares parameters and none of its scenarios specifies periods
ParameterisedWithoutPeriods(d) ==
    /\ Declared(d) # <<>>
    /\ \A j \in 1..Len(d.scenarios) : "periods" \notin DOMAIN d.scenarios[j]

\* the periods of the years of scenario j of e, with the ids of e's own array name
OwnPeriods(e, j) ==
    [y \in 1..Len(e.scenarios[j].years) |-> Period(e.scenarios[j].years[y], Fresh(e, j)[y].val)]

\* the scenarios that to_resources has not yet come to are as the template declares them
NotYetResolved ==
    pc = "resolving" =>
        \A r \in 1..Len(expanded_models) : \A j \in 1..Len(expanded_models[r].scenarios) :
           (r > mi \/ (r = mi /\ j >= si)) =>
              expanded_models[r].scenarios[j] = ParseScenario(models[TemplateOf(r)].scenarios[j])

\* a catalog of templates with parameters and without specified periods, whose array names
\* render, loads, and the resources of mean_work_loss/{intensity} have the ids of their own
\* intensity
OwnIds ==
    Finished =>
        LET E == Expanded
        IN  /\ (/\ \A t \in 1..Len(models) : ParameterisedWithoutPeriods(models[t])
                /\ \A r \in 1..Len(E) : \A j \in 1..Len(E[r].scenarios) : Renders(E[r], j))
                  => (LastRun.exc = "none" /\
                      \A r \in 1..Len(E) : \A j \in 1..Len(E[r].scenarios) :
                         LastRun.resources[r].scenarios[j].periods = Some(OwnPeriods(E[r], j)))
            /\ \A t \in 1..Len(models) :
                  (models[t] = mean_work_loss /\ LastRun.exc = "none") =>
                     /\ LastRun.resources[Before(t - 1) + 1].scenarios[1].periods.v[1] =
                           Period(2030, <<"o", "r", "f", "g", "d", "8">>)
                     /\ LastRun.resources[Before(t - 1) + 2].scenarios[1].periods.v[1] =
                           Period(2030, <<"r", "n", "5", "e", "u", "4">>)

\* a step of the resolution changes no scenario but the one it is at
OneScenarioAtATime ==
    (pc = "resolving" /\ pc' = "resolving") =>
        /\ Len(expanded_models') = Len(expanded_models)
        /\ \A r \in 1..Len(expanded_models) : \A j \in 1..Len(expanded_models[r].scenarios) :
              (r # mi \/ j # si) => expanded_models'[r].scenarios[j] = expanded_models[r].scenarios[j]

====
